---- MODULE Spec2Model ----
(***************************************************************************)
(* Model of the real-estate chatbot backend (api/utils.py, api/views.py).  *)
(*                                                                         *)
(* Text is modelled as a sequence of one-character strings, so that        *)
(* strip(), lower(), replace(), substring and regular-expression tests are *)
(* computed character by character as the code computes them.              *)
(*                                                                         *)
(* A DataFrame is a record [columns, index, rows]: the ordered column      *)
(* names, the pandas row labels, and the rows as tuples aligned with       *)
(* columns.                                                                *)
(*                                                                         *)
(* Readings taken of the source: utils.py uses the name `settings` without *)
(* importing it, and views.py uses get_dataset in query_view without       *)
(* importing it at module level and dedents the empty-result branch of     *)
(* query_view; the model resolves `settings` to realestate_chatbot/        *)
(* settings.py, get_dataset to utils.get_dataset, and reads views.py lines *)
(* 46-75 as the rest of query_view's body.                                 *)
(***************************************************************************)
EXTENDS Integers, Sequences, FiniteSets, TLC

VARIABLES
    file,      \* the backing Excel file at settings.EXCEL_PATH
    _df,       \* utils._df: None or the cached dataset
    loads,     \* how many times the underlying load (read + normalise + check) ran
    pc,        \* per thread: where it stands inside get_dataset()
    got,       \* per thread: what its last get_dataset() call returned or raised
    client,    \* utils.client: None or the OpenAI client
    request,   \* the request being served (None between requests)
    last       \* the response to the last request served

vars == <<file, _df, loads, pc, got, client, request, last>>
threadVars == <<pc, got>>
requestVars == <<client, request, last>>

None == [kind |-> "None"]
NoResult == [kind |-> "NoResult"]

\* ------------------------------------------------------------------ bounds
NumThreads == 3
MaxLoads == 3

Threads == 1..NumThreads

\* ------------------------------------------------------------------ text
UpperCase == <<"A","B","C","D","E","F","G","H","I","J","K","L","M",
               "N","O","P","Q","R","S","T","U","V","W","X","Y","Z">>
LowerCase == <<"a","b","c","d","e","f","g","h","i","j","k","l","m",
               "n","o","p","q","r","s","t","u","v","w","x","y","z">>

UpperSet == {UpperCase[i] : i \in 1..26}
LowerMap == [c \in UpperSet |-> LowerCase[CHOOSE i \in 1..26 : UpperCase[i] = c]]

\* str.lower() on one character
LowerChar(c) == IF c \in UpperSet THEN LowerMap[c] ELSE c

\* A comprehension evaluated to a list, as Python evaluates it (eagerly).
List(f) == f \o <<>>

SeqElems(q) == {q[i] : i \in 1..Len(q)}

\* str.lower()
StrLower(s) == List([i \in 1..Len(s) |-> LowerChar(s[i])])

IsSpace(c) == c = " "

\* str.strip(): drop leading and trailing whitespace
StrStrip(s) ==
    LET keep == {i \in 1..Len(s) : ~IsSpace(s[i])}
    IN  IF keep = {} THEN <<>>
        ELSE LET lo == CHOOSE i \in keep : \A j \in keep : i <= j
                 hi == CHOOSE i \in keep : \A j \in keep : j <= i
             IN  SubSeq(s, lo, hi)

\* str.replace(" ", "_")
StrReplaceSpace(s) == List([i \in 1..Len(s) |-> IF s[i] = " " THEN "_" ELSE s[i]])

\* utils.py:42  c.strip().lower().replace(" ", "_")
NormalizeColumn(c) == StrReplaceSpace(StrLower(StrStrip(c)))

\* The characters of the model's alphabet, in code-point order.
CodePoints == <<" ", ",", "-", ".", "0","1","2","3","4","5","6","7","8","9",
                "A","B","C","D","E","F","G","H","I","J","K","L","M",
                "N","O","P","Q","R","S","T","U","V","W","X","Y","Z", "_",
                "a","b","c","d","e","f","g","h","i","j","k","l","m",
                "n","o","p","q","r","s","t","u","v","w","x","y","z">>
CharSet == {CodePoints[i] : i \in 1..Len(CodePoints)}
OrdMap == [c \in CharSet |-> CHOOSE i \in 1..Len(CodePoints) : CodePoints[i] = c]
Ord(c) == OrdMap[c]

\* s < t as Python compares str: by code point, a proper prefix first
StrLess(s, t) ==
    \E k \in 1..(Len(t)) :
        /\ \A i \in 1..(k - 1) : i <= Len(s) /\ s[i] = t[i]
        /\ \/ k = Len(s) + 1
           \/ (k <= Len(s) /\ Ord(s[k]) < Ord(t[k]))

RECURSIVE SortedStrings(_)
\* sorted(...) of a set of distinct strings
SortedStrings(S) ==
    IF S = {} THEN <<>>
    ELSE LET m == CHOOSE x \in S : \A y \in S \ {x} : StrLess(x, y)
         IN  <<m>> \o SortedStrings(S \ {m})

RECURSIVE Unique(_)
\* Series.unique(): the distinct values in order of first appearance
Unique(q) ==
    IF Len(q) = 0 THEN <<>>
    ELSE LET u == Unique(SubSeq(q, 1, Len(q) - 1))
         IN  IF \E i \in 1..Len(u) : u[i] = q[Len(q)] THEN u ELSE Append(u, q[Len(q)])

RECURSIVE StrSplit(_, _)
\* str.split(sep) for a one-character separator
StrSplit(s, sep) ==
    IF \A i \in 1..Len(s) : s[i] # sep THEN <<s>>
    ELSE LET k == CHOOSE i \in 1..Len(s) : s[i] = sep /\ \A j \in 1..(i - 1) : s[j] # sep
         IN  <<SubSeq(s, 1, k - 1)>> \o StrSplit(SubSeq(s, k + 1, Len(s)), sep)

Digits == <<"0","1","2","3","4","5","6","7","8","9">>
IsDigit(c) == \E i \in 1..10 : Digits[i] = c
DigitValue(c) == (CHOOSE i \in 1..10 : Digits[i] = c) - 1

RECURSIVE DigitsToInt(_)
DigitsToInt(s) ==
    IF Len(s) = 0 THEN 0
    ELSE 10 * DigitsToInt(SubSeq(s, 1, Len(s) - 1)) + DigitValue(s[Len(s)])

\* int(s) succeeds on the model's alphabet: optional surrounding blanks, digits
IsIntLiteral(s) ==
    LET t == StrStrip(s) IN Len(t) > 0 /\ \A i \in 1..Len(t) : IsDigit(t[i])
StrToInt(s) == DigitsToInt(StrStrip(s))

\* ------------------------------------------------------------------ schema
Col_final_location == <<"f","i","n","a","l","_","l","o","c","a","t","i","o","n">>
Col_year == <<"y","e","a","r">>
Col_city == <<"c","i","t","y">>
Col_price == <<"f","l","a","t","_","-","_","w","e","i","g","h","t","e","d","_",
               "a","v","e","r","a","g","e","_","r","a","t","e">>
Col_demand == <<"t","o","t","a","l","_","s","o","l","d","_","-","_","i","g","r">>

SCHEMA == [area |-> Col_final_location, year |-> Col_year, city |-> Col_city,
           price |-> Col_price, demand |-> Col_demand]

SchemaValues == {SCHEMA[k] : k \in DOMAIN SCHEMA}

\* ------------------------------------------------------------------ the backing file
Hdr_FinalLocation == <<" ","F","i","n","a","l"," ","L","o","c","a","t","i","o","n">>
Hdr_Year == <<"Y","e","a","r"," ">>
Hdr_City == <<"C","i","t","y">>
Hdr_Price == <<"F","l","a","t"," ","-"," ","W","e","i","g","h","t","e","d"," ",
               "A","v","e","r","a","g","e"," ","R","a","t","e">>
Hdr_Demand == <<"T","o","t","a","l"," ","S","o","l","d"," ","-"," ","I","G","R">>
Hdr_FinalLocation2 == <<"F","i","n","a","l"," "," ","L","o","c","a","t","i","o","n">>

Wakad == <<"W","a","k","a","d">>
Baner == <<"B","a","n","e","r">>
Andheri == <<"A","n","d","h","e","r","i">>
Pune == <<"P","u","n","e">>
PuneVariant == <<" ","p","u","n","e">>
Mumbai == <<"M","u","m","b","a","i">>
Aundh == <<"A","u","n","d","h">>

\* The rows of the sample workbook: locality, year, city, price, demand.
SampleRows ==
    << <<Wakad,   2020, Pune,        100, 10>>,
       <<Baner,   2020, Pune,        200, 40>>,
       <<Wakad,   2021, Pune,        110, 12>>,
       <<Baner,   2021, PuneVariant, 180, 30>>,
       <<Wakad,   2022, Pune,        121, 20>>,
       <<Andheri, 2021, Mumbai,      300,  0>>,
       <<Baner,   2022, Pune,        270, 30>> >>

DropField(row, k) == List([i \in 1..(Len(row) - 1) |-> IF i < k THEN row[i] ELSE row[i + 1]])

\* A workbook with every required column (headers in mixed case, with spaces).
FileGood ==
    [exists |-> TRUE,
     header |-> <<Hdr_FinalLocation, Hdr_Year, Hdr_City, Hdr_Price, Hdr_Demand>>,
     rows |-> SampleRows]
\* A workbook without the city column.
FileNoCity ==
    [exists |-> TRUE,
     header |-> <<Hdr_FinalLocation, Hdr_Year, Hdr_Price, Hdr_Demand>>,
     rows |-> List([i \in 1..Len(SampleRows) |-> DropField(SampleRows[i], 3)])]
\* A workbook whose locality header normalises to final__location.
FileBadHeader ==
    [exists |-> TRUE,
     header |-> <<Hdr_FinalLocation2, Hdr_Year, Hdr_City, Hdr_Price, Hdr_Demand>>,
     rows |-> SampleRows]
\* No file at settings.EXCEL_PATH.
FileMissing == [exists |-> FALSE, header |-> <<>>, rows |-> <<>>]

\* A workbook whose last row adds a locality with Wakad's 2020 figures.
FileTies ==
    [exists |-> TRUE,
     header |-> <<Hdr_FinalLocation, Hdr_Year, Hdr_City, Hdr_Price, Hdr_Demand>>,
     rows |-> Append(SampleRows, <<Aundh, 2020, Pune, 100, 10>>)]

Files == {FileGood, FileNoCity, FileBadHeader, FileMissing, FileTies}

\* ------------------------------------------------------------------ get_dataset
\* pd.read_excel: the sheet as a frame with a RangeIndex
ReadExcel(f) ==
    [columns |-> f.header,
     index |-> List([i \in 1..Len(f.rows) |-> i - 1]),
     rows |-> f.rows]

\* utils.py:45  missing = [v for v in SCHEMA.values() if v not in cols]
MissingColumns(columns) ==
    {v \in SchemaValues : \A i \in 1..Len(columns) : columns[i] # v}

\* A faulty load: the schema check of utils.py:44-47 left out.
LoadDatasetUnchecked(f) ==
    IF ~f.exists THEN [ok |-> FALSE, error |-> "FileNotFoundError", read |-> 0]
    ELSE LET raw == ReadExcel(f)
             df == [raw EXCEPT !.columns =
                       List([i \in 1..Len(raw.columns) |-> NormalizeColumn(raw.columns[i])])]
         IN  [ok |-> TRUE, df |-> df, read |-> 1]

\* utils.py:37-49  the load behind the cache: existence check, read, column
\* normalisation, schema check.  read is 1 when read_excel ran.
LoadDataset(f) ==
    IF ~f.exists THEN [ok |-> FALSE, error |-> "FileNotFoundError", read |-> 0]
    ELSE LET raw == ReadExcel(f)
             df == [raw EXCEPT !.columns =
                       List([i \in 1..Len(raw.columns) |-> NormalizeColumn(raw.columns[i])])]
         IN  IF MissingColumns(df.columns) # {}
             THEN [ok |-> FALSE, error |-> "ValueError", read |-> 1]
             ELSE [ok |-> TRUE, df |-> df, read |-> 1]

\* The value stored in _df: the frame and the identity of the object (the
\* ordinal of the load that built it).
Cached(id, df) == [kind |-> "DataFrame", id |-> id, frame |-> df]

\* utils.py:34-35  thread t enters get_dataset() and tests the cache
GetDatasetCheck(t) ==
    /\ pc[t] = "idle"
    /\ IF _df # None
       THEN /\ got' = [got EXCEPT ![t] = [kind |-> "dataset", id |-> _df.id]]
            /\ pc' = pc
       ELSE /\ pc' = [pc EXCEPT ![t] = "loading"]
            /\ got' = [got EXCEPT ![t] = NoResult]
    /\ UNCHANGED <<file, _df, loads, requestVars>>

\* utils.py:37-50  thread t, having seen an empty cache, loads and stores
GetDatasetLoad(t) ==
    /\ pc[t] = "loading"
    /\ loads < MaxLoads
    /\ LET r == LoadDataset(file)
       IN  /\ loads' = loads + r.read
           /\ IF r.ok
              THEN /\ _df' = Cached(loads + 1, r.df)
                   /\ got' = [got EXCEPT ![t] = [kind |-> "dataset", id |-> loads + 1]]
              ELSE /\ _df' = _df
                   /\ got' = [got EXCEPT ![t] = [kind |-> "error", error |-> r.error]]
    /\ pc' = [pc EXCEPT ![t] = "idle"]
    /\ UNCHANGED <<file, requestVars>>

\* ------------------------------------------------------------------ frames
HasColumn(df, col) == \E i \in 1..Len(df.columns) : df.columns[i] = col
ColPos(df, col) == CHOOSE i \in 1..Len(df.columns) : df.columns[i] = col

\* df[col]: the column's values, row by row
Series(df, col) ==
    LET c == ColPos(df, col) IN List([i \in 1..Len(df.rows) |-> df.rows[i][c]])

\* df[col] = values, in place: a new column is appended, an old one overwritten
SetColumn(df, col, values) ==
    IF HasColumn(df, col)
    THEN [df EXCEPT !.rows = List([i \in 1..Len(df.rows) |->
                                 [df.rows[i] EXCEPT ![ColPos(df, col)] = values[i]]])]
    ELSE [df EXCEPT !.columns = Append(df.columns, col),
                    !.rows = List([i \in 1..Len(df.rows) |-> Append(df.rows[i], values[i])])]

RECURSIVE Positions(_, _)
\* the positions 1..n at which mask holds, ascending
Positions(mask, n) ==
    IF n = 0 THEN <<>>
    ELSE IF mask[n] THEN Append(Positions(mask, n - 1), n)
         ELSE Positions(mask, n - 1)

\* df[mask]: a new frame with the rows whose mask is True, labels kept, in order
BoolIndex(df, mask) ==
    LET pos == Positions(mask, Len(df.rows))
    IN  [df EXCEPT !.index = List([k \in 1..Len(pos) |-> df.index[pos[k]]]),
                   !.rows = List([k \in 1..Len(pos) |-> df.rows[pos[k]]])]

\* A faulty drop: the columns are left in the frame.
DropColumnsKeepAll(df, cols) == df

\* df.drop(columns=cols, errors="ignore"): a new frame without those columns
DropColumns(df, cols) ==
    LET keep == Positions(List([i \in 1..Len(df.columns) |-> df.columns[i] \notin cols]),
                          Len(df.columns))
    IN  [df EXCEPT !.columns = List([k \in 1..Len(keep) |-> df.columns[keep[k]]]),
                   !.rows = List([i \in 1..Len(df.rows) |->
                                List([k \in 1..Len(keep) |-> df.rows[i][keep[k]]])])]

\* ------------------------------------------------------------------ entity extraction
LowerSet == {LowerCase[i] : i \in 1..26}

\* \w of a regular expression, on the model's alphabet
IsWordChar(c) == IsDigit(c) \/ c = "_" \/ c \in UpperSet \/ c \in LowerSet

\* \b between s[pos] and s[pos + 1] (pos = 0 is the start of s)
WordBoundary(s, pos) ==
    LET before == pos >= 1 /\ IsWordChar(s[pos])
        after == pos < Len(s) /\ IsWordChar(s[pos + 1])
    IN  before # after

\* pat occurs in s right after offset off
MatchesAt(s, pat, off) ==
    off + Len(pat) <= Len(s) /\ \A i \in 1..Len(pat) : s[off + i] = pat[i]

\* a in s for two str: plain substring
StrIn(a, s) == \E off \in 0..(Len(s) - Len(a)) : MatchesAt(s, a, off)

\* utils.py:55-63  re.findall(r"\b(19\d{2}|20\d{2})\b", message), then min and max
extract_year_range(message) ==
    LET hits == {off \in 0..(Len(message) - 4) :
                    /\ WordBoundary(message, off)
                    /\ \/ (message[off + 1] = "1" /\ message[off + 2] = "9")
                       \/ (message[off + 1] = "2" /\ message[off + 2] = "0")
                    /\ IsDigit(message[off + 3]) /\ IsDigit(message[off + 4])
                    /\ WordBoundary(message, off + 4)}
        years == {DigitsToInt(SubSeq(message, off + 1, off + 4)) : off \in hits}
    IN  IF years = {} THEN <<>>
        ELSE <<CHOOSE y \in years : \A z \in years : y <= z,
               CHOOSE y \in years : \A z \in years : z <= y>>

Kw_both == <<"b","o","t","h">>
Kw_price == <<"p","r","i","c","e">>
Kw_demand == <<"d","e","m","a","n","d">>
Kw_sales == <<"s","a","l","e","s">>
Kw_interest == <<"i","n","t","e","r","e","s","t">>
Kw_popularity == <<"p","o","p","u","l","a","r","i","t","y">>
Kw_rate == <<"r","a","t","e">>
Kw_cost == <<"c","o","s","t">>
Kw_value == <<"v","a","l","u","e">>

\* utils.py:66-74
detect_metric(message, default) ==
    LET msg == StrLower(message)
    IN  IF StrIn(Kw_both, msg) \/ (StrIn(Kw_price, msg) /\ StrIn(Kw_demand, msg)) THEN "both"
        ELSE IF \E w \in {Kw_demand, Kw_sales, Kw_interest, Kw_popularity} : StrIn(w, msg)
             THEN "demand"
        ELSE IF \E w \in {Kw_price, Kw_rate, Kw_cost, Kw_value} : StrIn(w, msg)
             THEN "price"
        ELSE default

RECURSIVE CollapseSpaces(_)
\* re.sub(r"\s+", " ", s): every run of blanks becomes one blank
CollapseSpaces(s) ==
    IF Len(s) <= 1 THEN s
    ELSE LET head == CollapseSpaces(SubSeq(s, 1, Len(s) - 1))
         IN  IF IsSpace(s[Len(s)]) /\ IsSpace(s[Len(s) - 1]) THEN head
             ELSE Append(head, s[Len(s)])

\* utils.py:77-78
_normalize_text(text) == CollapseSpaces(StrLower(StrStrip(text)))

\* q restricted to the positions where Keep holds, in order
SelectList(q, Keep(_)) ==
    LET pos == Positions(List([i \in 1..Len(q) |-> Keep(q[i])]), Len(q))
    IN  List([k \in 1..Len(pos) |-> q[pos[k]]])

\* utils.py:81-91
extract_cities_from_message(df, message) ==
    LET cities == Unique(Series(df, SCHEMA.city))
        msg == _normalize_text(message)
        Hit(city) == StrIn(_normalize_text(city), msg)
    IN  SelectList(cities, Hit)

\* str.split(): the blank-separated words
Words(s) ==
    LET t == CollapseSpaces(StrStrip(s))
    IN  IF Len(t) = 0 THEN <<>> ELSE StrSplit(t, " ")

RECURSIVE JoinWords(_)
\* " ".join(words)
JoinWords(words) ==
    IF Len(words) = 0 THEN <<>>
    ELSE IF Len(words) = 1 THEN words[1]
    ELSE JoinWords(SubSeq(words, 1, Len(words) - 1)) \o <<" ">> \o words[Len(words)]

RECURSIVE MatchLen(_, _, _, _, _, _)
\* how far a[i..ahi] and b[j..bhi] agree from their first characters
MatchLen(a, i, ahi, b, j, bhi) ==
    IF i > ahi \/ j > bhi THEN 0
    ELSE IF a[i] # b[j] THEN 0
    ELSE 1 + MatchLen(a, i + 1, ahi, b, j + 1, bhi)

RECURSIVE MatchingChars(_, _, _, _, _, _)
\* difflib.SequenceMatcher.get_matching_blocks: the total size of the blocks
\* of a[alo..ahi] and b[blo..bhi]: the longest block (earliest in a, then
\* earliest in b), then the same to its left and to its right
MatchingChars(a, alo, ahi, b, blo, bhi) ==
    LET starts == {p \in (alo..ahi) \X (blo..bhi) : a[p[1]] = b[p[2]]}
    IN  IF starts = {} THEN 0
        ELSE LET Size(p) == MatchLen(a, p[1], ahi, b, p[2], bhi)
                 k == CHOOSE n \in {Size(p) : p \in starts} :
                          \A q \in starts : Size(q) <= n
                 longest == {p \in starts : Size(p) = k}
                 i == CHOOSE x \in {p[1] : p \in longest} :
                          \A q \in longest : x <= q[1]
                 j == CHOOSE y \in {p[2] : p \in {r \in longest : r[1] = i}} :
                          \A q \in longest : q[1] = i => y <= q[2]
             IN  k + MatchingChars(a, alo, i - 1, b, blo, j - 1)
                   + MatchingChars(a, i + k, ahi, b, j + k, bhi)

\* SequenceMatcher(a, b).ratio() as the fraction num / den (1.0 for two empty strings)
Ratio(a, b) ==
    IF Len(a) + Len(b) = 0 THEN [num |-> 1, den |-> 1]
    ELSE [num |-> 2 * MatchingChars(a, 1, Len(a), b, 1, Len(b)), den |-> Len(a) + Len(b)]

\* real_quick_ratio() >= 0.8 and ratio() >= 0.8 (quick_ratio lies between them)
IsClose(word, x) ==
    LET short == IF Len(word) < Len(x) THEN Len(word) ELSE Len(x)
    IN  /\ Len(word) + Len(x) > 0 => 10 * 2 * short >= 8 * (Len(word) + Len(x))
        /\ 10 * Ratio(x, word).num >= 8 * Ratio(x, word).den

\* difflib.get_close_matches(word, possibilities, n, cutoff=0.8): the n best
\* of the close ones, by (score, string) descending
get_close_matches(word, possibilities, n) ==
    LET close == SelectList(possibilities, LAMBDA x : IsClose(word, x))
        Better(x, y) ==
            LET rx == Ratio(x, word)
                ry == Ratio(y, word)
            IN  \/ rx.num * ry.den > ry.num * rx.den
                \/ (rx.num * ry.den = ry.num * rx.den /\ StrLess(y, x))
        Place(i) == Cardinality({j \in 1..Len(close) : Better(close[j], close[i])})
                    + Cardinality({j \in 1..(i - 1) : close[j] = close[i]}) + 1
        m == IF Len(close) < n THEN Len(close) ELSE n
    IN  List([k \in 1..m |-> close[CHOOSE i \in 1..Len(close) : Place(i) = k]])

\* utils.py:128-134  the word n-grams of length 1 to 3
Candidates(msg) ==
    LET tokens == Words(msg)
        top == IF Len(tokens) < 3 THEN Len(tokens) ELSE 3
    IN  {JoinWords(SubSeq(tokens, p[1], p[1] + p[2] - 1)) :
            p \in {r \in (1..Len(tokens)) \X (1..top) : r[1] + r[2] - 1 <= Len(tokens)}}

\* A faulty exact phase: a plain substring test, without the word boundaries.
ExactPhaseSubstring(areas, msg) ==
    SelectList(areas, LAMBDA loc : StrIn(StrStrip(StrLower(loc)), msg))

\* utils.py:115-120  re.search(r"\b" + re.escape(loc_norm) + r"\b", msg) per locality
ExactPhase(areas, msg) ==
    SelectList(areas, LAMBDA loc :
        LET loc_norm == StrStrip(StrLower(loc))
        IN  \E off \in 0..(Len(msg) - Len(loc_norm)) :
                /\ MatchesAt(msg, loc_norm, off)
                /\ WordBoundary(msg, off)
                /\ WordBoundary(msg, off + Len(loc_norm)))

\* utils.py:94-147.  exact is the list returned by phase 1; when it is empty,
\* fuzzy is the set that list(fuzzy_matches) puts in some order.
extract_areas_from_message(df, message) ==
    LET areas == Unique(Series(df, SCHEMA.area))
        msg == StrStrip(StrLower(message))
        exact_matches == ExactPhase(areas, msg)
        norm_list == List([i \in 1..Len(areas) |-> StrLower(areas[i])])
        fuzzy_matches ==
            {areas[i] : i \in {i \in 1..Len(areas) :
                \E cand \in Candidates(msg) :
                    StrLower(areas[i]) \in SeqElems(get_close_matches(StrLower(cand), norm_list, 3))}}
    IN  IF Len(exact_matches) > 0
        THEN [phase |-> "exact", exact |-> exact_matches, fuzzy |-> {}]
        ELSE [phase |-> "fuzzy", exact |-> <<>>, fuzzy |-> fuzzy_matches]

\* list(a_set): the elements in some order
Orderings(S) ==
    {q \in [1..Cardinality(S) -> S] : \A i, j \in 1..Cardinality(S) : q[i] = q[j] => i = j}

\* ------------------------------------------------------------------ filter_data
Col_area_norm == <<"_","a","r","e","a","_","n","o","r","m">>
Col_city_norm == <<"_","c","i","t","y","_","n","o","r","m">>

\* utils.py:162  norm = lambda s: str(s).strip().lower()
Norm(s) == StrLower(StrStrip(s))

\* One pattern character against one text character, as re matches it: "."
\* is any character, every other character of the model's alphabet is itself.
RegexCharMatches(p, c) == p = "." \/ p = c

\* Series.str.contains(pat) on one value: pandas' default regex=True, hence
\* re.search(pat, value)
StrContains(value, pat) ==
    \E off \in 0..(Len(value) - Len(pat)) :
        \A i \in 1..Len(pat) : RegexCharMatches(pat[i], value[off + i])

\* A faulty copy: the frame itself is handed on, not a copy of it.
DfAlias(df) == [frame |-> df, shared |-> TRUE]

\* utils.py:164  df.copy(): a new object, the cached frame not shared with it
DfCopy(df) == [frame |-> df, shared |-> FALSE]

\* utils.py:151-192.  areas, cities: a list, <<>> standing for None as well
\* (the code tests truthiness only); year_range: <<>> for None, else <<start, end>>.
\* result is the frame returned; canonical is the cached frame after the call.
filter_data(df, areas, year_range, cities) ==
    LET w0 == DfCopy(df)
        area_values == Series(w0.frame, SCHEMA.area)
        f1 == SetColumn(w0.frame, Col_area_norm,
                        List([i \in 1..Len(df.rows) |-> Norm(area_values[i])]))
        city_values == Series(f1, SCHEMA.city)
        f2 == SetColumn(f1, Col_city_norm,
                        List([i \in 1..Len(df.rows) |-> Norm(city_values[i])]))
        areas_norm == List([i \in 1..Len(areas) |-> Norm(areas[i])])
        cities_norm == List([i \in 1..Len(cities) |-> Norm(cities[i])])
        f3 == IF Len(cities_norm) > 0
              THEN LET col == Series(f2, Col_city_norm)
                   IN  BoolIndex(f2, List([i \in 1..Len(f2.rows) |->
                                              col[i] \in SeqElems(cities_norm)]))
              ELSE f2
        f4 == IF Len(areas_norm) > 0
              THEN LET col == Series(f3, Col_area_norm)
                   IN  BoolIndex(f3, List([i \in 1..Len(f3.rows) |->
                                              \E k \in 1..Len(areas_norm) :
                                                  StrContains(col[i], areas_norm[k])]))
              ELSE f3
        f5 == IF Len(year_range) > 0
              THEN LET col == Series(f4, SCHEMA.year)
                   IN  BoolIndex(f4, List([i \in 1..Len(f4.rows) |->
                                              col[i] >= year_range[1] /\ col[i] <= year_range[2]]))
              ELSE f4
    IN  [result |-> DropColumns(f5, {Col_area_norm, Col_city_norm}),
         canonical |-> IF w0.shared THEN f2 ELSE df]

\* ------------------------------------------------------------------ numbers
\* A float is modelled in fixed point: the integer floor(value * Scale).
Scale == 1000

RECURSIVE SumSeq(_)
SumSeq(q) == IF Len(q) = 0 THEN 0 ELSE SumSeq(SubSeq(q, 1, Len(q) - 1)) + q[Len(q)]
MinSeq(q) == CHOOSE x \in SeqElems(q) : \A y \in SeqElems(q) : x <= y
MaxSeq(q) == CHOOSE x \in SeqElems(q) : \A y \in SeqElems(q) : y <= x

\* Series.mean() of integers or fixed-point values, in the same unit
MeanOf(q) == SumSeq(q) \div Len(q)

RECURSIVE Pow(_, _)
Pow(b, k) == IF k = 0 THEN 1 ELSE b * Pow(b, k - 1)

RECURSIVE RootBetween(_, _, _, _)
\* the largest r in lo..hi with r^k <= n
RootBetween(k, n, lo, hi) ==
    IF lo >= hi THEN lo
    ELSE LET mid == (lo + hi + 1) \div 2
         IN  IF Pow(mid, k) <= n THEN RootBetween(k, n, mid, hi)
             ELSE RootBetween(k, n, lo, mid - 1)

\* floor of the k-th root of n (k = 1 or 2 within the sample's three years)
IRoot(k, n) == IF k = 1 THEN n ELSE RootBetween(k, n, 0, 46340)

\* ------------------------------------------------------------------ aggregation
\* sorted(df[col].unique().tolist()) for an integer column
SortedInts(S) ==
    LET n == Cardinality(S)
    IN  List([k \in 1..n |-> CHOOSE x \in S : Cardinality({y \in S : y < x}) = k - 1])

\* the rows of df whose column col equals v, as a frame
RowsWhere(df, col, v) ==
    LET c == Series(df, col)
    IN  BoolIndex(df, List([i \in 1..Len(df.rows) |-> c[i] = v]))

\* utils.py:235-236  filtered_df.head(limit).to_dict(orient="records")
build_table_data(filtered_df, limit) ==
    LET n == IF Len(filtered_df.rows) < limit THEN Len(filtered_df.rows) ELSE limit
    IN  List([i \in 1..n |->
                [c \in SeqElems(filtered_df.columns) |->
                    filtered_df.rows[i][ColPos(filtered_df, c)]]])

TableLimit == 200

MetricColumns == [price |-> SCHEMA.price, demand |-> SCHEMA.demand]

\* utils.py:196-232.  A series value is a mean in fixed point, or None.
build_chart_data(filtered_df, metric) ==
    IF Len(filtered_df.rows) = 0 THEN [labels |-> <<>>, datasets |-> <<>>]
    ELSE
    LET metrics == IF metric = "both" THEN <<"price", "demand">> ELSE <<metric>>
        labels == SortedInts(SeqElems(Series(filtered_df, SCHEMA.year)))
        areas == Unique(Series(filtered_df, SCHEMA.area))
        known == Positions(List([j \in 1..Len(metrics) |-> metrics[j] \in DOMAIN MetricColumns]),
                           Len(metrics))
        SeriesFor(area, m) ==
            LET g == RowsWhere(filtered_df, SCHEMA.area, area)
            IN  List([y \in 1..Len(labels) |->
                    LET cell == RowsWhere(g, SCHEMA.year, labels[y])
                    IN  IF Len(cell.rows) = 0 THEN None
                        ELSE [kind |-> "float",
                              value |-> MeanOf(List([i \in 1..Len(cell.rows) |->
                                  Scale * Series(cell, MetricColumns[m])[i]]))]])
        Entry(a, j) ==
            [label |-> IF Len(metrics) > 1
                       THEN [area |-> areas[a], metric |-> metrics[known[j]]]
                       ELSE [area |-> areas[a]],
             metric |-> metrics[known[j]],
             data |-> SeriesFor(areas[a], metrics[known[j]])]
        nk == Len(known)
    IN  [labels |-> labels,
         datasets |-> List([n \in 1..(Len(areas) * nk) |->
                          Entry(((n - 1) \div nk) + 1, ((n - 1) % nk) + 1)])]

\* ------------------------------------------------------------------ analytics
\* utils.py:253-326  the statistics of one locality's rows (group)
AreaStats(group) ==
    LET years == SortedInts(SeqElems(Series(group, SCHEMA.year)))
        n == Len(years)
        YearRows(k) == RowsWhere(group, SCHEMA.year, years[k])
        \* group.groupby(year)[price].mean().sort_index()
        price_series == List([k \in 1..n |->
            MeanOf(List([i \in 1..Len(YearRows(k).rows) |->
                Scale * Series(YearRows(k), SCHEMA.price)[i]]))])
        cagr == IF n >= 2
                THEN LET p0 == price_series[1]
                         pN == price_series[n]
                         n_years == n - 1
                     IN  IF p0 > 0 /\ n_years > 0
                         THEN IRoot(n_years, ((pN * Scale) \div p0) * Pow(Scale, n_years - 1)) - Scale
                         ELSE 0
                ELSE 0
        \* price_series.pct_change().dropna()
        pct_changes == List([k \in 1..(n - 1) |->
            ((price_series[k + 1] * Scale) \div price_series[k]) - Scale])
        price_volatility ==
            IF n >= 3
            THEN LET k == n - 1
                     sq == List([i \in 1..k |-> pct_changes[i] * pct_changes[i]])
                     total == SumSeq(pct_changes)
                 IN  IRoot(2, (k * SumSeq(sq) - total * total) \div (k * (k - 1)))
            ELSE 0
        \* group.groupby(year)[demand].sum().sort_index()
        demand_series == List([k \in 1..n |-> SumSeq(Series(YearRows(k), SCHEMA.demand))])
        demand_trend ==
            IF n >= 2
            THEN LET d0 == demand_series[1]
                     dN == demand_series[n]
                 IN  IF 10 * dN > 11 * d0 THEN "Rising"
                     ELSE IF 10 * dN < 9 * d0 THEN "Falling"
                     ELSE "Stable"
            ELSE "Unknown"
        \* np.polyfit(xs, ys, 1) evaluated at year_max + 1, years taken from years[1]
        forecast_next ==
            IF n >= 2
            THEN LET xs == List([k \in 1..n |-> years[k] - years[1]])
                     sx == SumSeq(xs)
                     sy == SumSeq(price_series)
                     sxx == SumSeq(List([k \in 1..n |-> xs[k] * xs[k]]))
                     sxy == SumSeq(List([k \in 1..n |-> xs[k] * price_series[k]]))
                     d == n * sxx - sx * sx
                     next_year == years[n] + 1 - years[1]
                 IN  [kind |-> "float",
                      value |-> ((n * sxy - sx * sy) * (n * next_year - sx) + sy * d) \div (n * d)]
            ELSE None
    IN  [year_start |-> years[1],
         year_end |-> years[n],
         avg_price |-> MeanOf(price_series),
         min_price |-> MinSeq(price_series),
         max_price |-> MaxSeq(price_series),
         price_cagr |-> cagr,
         price_volatility |-> price_volatility,
         avg_demand |-> (Scale * SumSeq(demand_series)) \div n,
         total_demand |-> SumSeq(demand_series),
         demand_trend |-> demand_trend,
         price_forecast_next_year |-> forecast_next]

\* utils.py:241-328.  The dict is modelled as the list of its items, in
\* insertion order: groupby(area_col) yields the groups in sorted key order.
_compute_area_stats(filtered_df) ==
    IF Len(filtered_df.rows) = 0 THEN <<>>
    ELSE LET areas == SortedStrings(SeqElems(Series(filtered_df, SCHEMA.area)))
         IN  List([a \in 1..Len(areas) |->
                 [area |-> areas[a],
                  stats |-> AreaStats(RowsWhere(filtered_df, SCHEMA.area, areas[a]))]])

\* A faulty clamp: the value is passed through unbounded.
ClampUnchecked(v) == v

\* max(0.0, min(10.0, v))
Clamp(v) == IF v > 10 * Scale THEN 10 * Scale ELSE IF v < 0 THEN 0 ELSE v

\* round(x, 1): to the nearest tenth, a tie to the even tenth
RoundTenth(v) ==
    LET unit == Scale \div 10
        q == v \div unit
        r == v % unit
    IN  IF 2 * r > unit \/ (2 * r = unit /\ q % 2 = 1) THEN (q + 1) * unit ELSE q * unit

\* list.sort(key=..., reverse=True): descending, equal keys in their input order
SortDescending(q, Key(_)) ==
    LET n == Len(q)
        Place(i) == Cardinality({j \in 1..n : Key(q[j]) > Key(q[i])})
                    + Cardinality({j \in 1..(i - 1) : Key(q[j]) = Key(q[i])}) + 1
    IN  List([k \in 1..n |-> q[CHOOSE i \in 1..n : Place(i) = k]])

RankKey(e) == e.investment_score
NegatedRankKey(e) == 0 - e.investment_score

\* A faulty ranking: an ascending sort reversed, which turns equal scores around.
RankAreasReversed(ranked) ==
    LET up == SortDescending(ranked, NegatedRankKey)
    IN  List([k \in 1..Len(up) |-> up[Len(up) + 1 - k]])

\* utils.py:365  ranked.sort(key=lambda x: x["investment_score"], reverse=True)
RankAreas(ranked) == SortDescending(ranked, RankKey)

\* utils.py:341-361  the four scores of one locality
Scores(s, max_avg_demand, max_volatility) ==
    LET growth_score == Clamp(((s.price_cagr + (Scale \div 20)) * 10 * Scale) \div (Scale \div 5))
        demand_score == Clamp((s.avg_demand * 10 * Scale) \div max_avg_demand)
        risk_raw == Clamp((s.price_volatility * 10 * Scale) \div max_volatility)
        risk_score == 10 * Scale - risk_raw
    IN  [growth_score |-> growth_score,
         demand_score |-> demand_score,
         risk_score |-> risk_score,
         investment_score |-> (4 * growth_score + 4 * demand_score + 2 * risk_score) \div 10]

\* utils.py:336-372  the scoring and ranking of a non-empty statistics batch
ScoreAndRank(base_stats, max_avg_demand, max_volatility, year_range, metric) ==
    LET scored == List([i \in 1..Len(base_stats) |->
            [area |-> base_stats[i].area,
             stats |-> base_stats[i].stats,
             scores |-> Scores(base_stats[i].stats, max_avg_demand, max_volatility)]])
        ranked == List([i \in 1..Len(base_stats) |->
            [area |-> base_stats[i].area,
             investment_score |->
                 RoundTenth(Scores(base_stats[i].stats, max_avg_demand,
                                   max_volatility).investment_score)]])
    IN  [areas |-> scored,
         ranked_areas |-> RankAreas(ranked),
         year_range |-> year_range,
         metric |-> metric]

\* max(...) or 1.0
OrOne(top) == IF top = 0 THEN Scale ELSE top

\* utils.py:333-372  build_insights once _compute_area_stats has returned base_stats
InsightsOf(base_stats, year_range, metric) ==
    IF Len(base_stats) = 0
    THEN [areas |-> <<>>, ranked_areas |-> <<>>, year_range |-> year_range, metric |-> metric]
    ELSE ScoreAndRank(
            base_stats,
            OrOne(MaxSeq(List([i \in 1..Len(base_stats) |-> base_stats[i].stats.avg_demand]))),
            OrOne(MaxSeq(List([i \in 1..Len(base_stats) |->
                                  base_stats[i].stats.price_volatility]))),
            year_range, metric)

\* utils.py:331-372
build_insights(filtered_df, year_range, metric) ==
    InsightsOf(_compute_area_stats(filtered_df), year_range, metric)

\* ------------------------------------------------------------------ summaries
\* A summary text is modelled as the list of its sentences, each a record of
\* the template chosen and the values formatted into it.

\* utils.py:379  the fixed text returned for an empty subset
NoDataMessage == <<[sentence |-> "no matching data, try another locality, city or year range"]>>

\* utils.py:389-395  the scope named in the first sentence
ScopeLabel(areas, cities) ==
    IF Len(areas) = 0 /\ Len(cities) = 0 THEN [text |-> "the selected dataset"]
    ELSE [areas |-> areas, cities |-> cities]

\* utils.py:377-430
build_basic_summary(filtered_df, areas, cities, year_range, metric) ==
    IF Len(filtered_df.rows) = 0 THEN NoDataMessage
    ELSE
    LET years == SortedInts(SeqElems(Series(filtered_df, SCHEMA.year)))
        first_year == years[1]
        last_year == years[Len(years)]
        prices == Series(filtered_df, SCHEMA.price)
        demands == Series(filtered_df, SCHEMA.demand)
        first_prices == Series(RowsWhere(filtered_df, SCHEMA.year, first_year), SCHEMA.price)
        last_prices == Series(RowsWhere(filtered_df, SCHEMA.year, last_year), SCHEMA.price)
        \* last_avg > first_avg * 1.05 and last_avg < first_avg * 0.95, in integers
        up == SumSeq(last_prices) * Len(first_prices) * 100
                > SumSeq(first_prices) * Len(last_prices) * 105
        down == SumSeq(last_prices) * Len(first_prices) * 100
                < SumSeq(first_prices) * Len(last_prices) * 95
        intro == <<[sentence |-> "analysis", scope |-> ScopeLabel(areas, cities)],
                   [sentence |-> "years", from |-> first_year, to |-> last_year]>>
        price_range == IF metric \in {"price", "both"}
                       THEN <<[sentence |-> "price range",
                               from |-> MinSeq(prices), to |-> MaxSeq(prices)]>>
                       ELSE <<>>
        demand_range == IF metric \in {"demand", "both"}
                        THEN <<[sentence |-> "demand range",
                                from |-> MinSeq(demands), to |-> MaxSeq(demands)]>>
                        ELSE <<>>
        trend == IF metric \in {"price", "both"}
                 THEN <<[sentence |-> IF up THEN "upward trend"
                                       ELSE IF down THEN "softened" ELSE "stable",
                         from |-> first_year, to |-> last_year]>>
                 ELSE <<>>
    IN  intro \o price_range \o demand_range \o trend

\* The text a successful rewrite call returns.
RewrittenText == <<[sentence |-> "rewritten by the external service"]>>

\* What client.responses.create can do: answer with text, answer with a
\* response that holds no output item, or raise.
ExternalOutcomes == {"text", "malformed", "raise"}

\* A faulty handler: the failure of the call escapes instead of falling back.
PropagateFailure(basic, outcome) ==
    IF outcome = "text" THEN [ok |-> TRUE, text |-> RewrittenText]
    ELSE [ok |-> FALSE, error |-> "Exception"]

\* utils.py:457-464  the try block once the call has ended with outcome
RewriteResult(basic, outcome) ==
    IF outcome = "text" THEN [ok |-> TRUE, text |-> RewrittenText]
    ELSE [ok |-> TRUE, text |-> basic]

\* utils.py:436  the external service is called only with a client and rows
CallsExternal(cl, filtered_df) == ~(cl = None \/ Len(filtered_df.rows) = 0)

\* ------------------------------------------------------------------ views
\* utils.py:29-50  get_dataset() run by a request without interleaving:
\* cache is _df, f the backing file, n the loads so far.
get_dataset(cache, f, n) ==
    IF cache # None THEN [ok |-> TRUE, cache |-> cache, read |-> 0]
    ELSE LET r == LoadDataset(f)
         IN  IF r.ok
             THEN [ok |-> TRUE, cache |-> Cached(n + 1, r.df), read |-> r.read]
             ELSE [ok |-> FALSE, error |-> r.error, cache |-> cache, read |-> r.read]

\* views.py:80  [a.strip() for a in param.split(",") if a.strip()]
ParseList(param) ==
    LET parts == StrSplit(param, ",")
        stripped == List([i \in 1..Len(parts) |-> StrStrip(parts[i])])
        pos == Positions(List([i \in 1..Len(parts) |-> Len(stripped[i]) > 0]), Len(parts))
    IN  List([k \in 1..Len(pos) |-> stripped[pos[k]]])

\* views.py:87-92  start_year, end_year: the GET values, <<>> when absent
ParseYearRange(start_year, end_year) ==
    IF Len(start_year) > 0 /\ Len(end_year) > 0
    THEN IF IsIntLiteral(start_year) /\ IsIntLiteral(end_year)
         THEN <<StrToInt(start_year), StrToInt(end_year)>>
         ELSE <<>>
    ELSE <<>>

\* The response to a request whose get_dataset() raised.
ErrorResponse(view, error) == [kind |-> "error", view |-> view, error |-> error]

\* A request arrives: the view and its parameters as the URL or body gives them.
Receive(r) ==
    /\ request = None
    /\ _df # None \/ loads < MaxLoads
    /\ request' = r
    /\ last' = NoResult
    /\ UNCHANGED <<file, _df, loads, client, threadVars>>

\* The view ends with response as its answer.
Respond(response) ==
    /\ request' = None
    /\ last' = response

\* get_dataset() raised inside the view: Django answers with the error.
Raised(view, g) ==
    /\ _df' = g.cache
    /\ Respond(ErrorResponse(view, g.error))

\* views.py:100-103  the CSV of the subset r.result
CsvAnswer(cache, r, areas, cities, year_range) ==
    /\ _df' = [cache EXCEPT !.frame = r.canonical]
    /\ Respond([kind |-> "csv", areas |-> areas, cities |-> cities,
                year_range |-> year_range, subset |-> r.result])

\* views.py:94-103  g is what get_dataset() gave filter_data
CsvServe(g, areas, cities, year_range) ==
    /\ loads' = loads + g.read
    /\ IF g.ok
       THEN CsvAnswer(g.cache, filter_data(g.cache.frame, areas, year_range, cities),
                      areas, cities, year_range)
       ELSE Raised("csv", g)

\* views.py:78-103  GET download_csv/
download_csv_view ==
    /\ request # None /\ request.view = "csv" /\ request.stage = "received"
    /\ CsvServe(get_dataset(_df, file, loads),
                ParseList(request.areas), ParseList(request.cities),
                ParseYearRange(request.start_year, request.end_year))
    /\ UNCHANGED <<file, client, threadVars>>

\* views.py:219-221  g is what get_dataset() gave
LocalitiesServe(g) ==
    /\ loads' = loads + g.read
    /\ IF g.ok
       THEN /\ _df' = g.cache
            /\ Respond([kind |-> "localities",
                        localities |-> SortedStrings(SeqElems(
                            Series(g.cache.frame, Col_final_location)))])
       ELSE Raised("localities", g)

\* views.py:216-221  GET localities/
list_localities ==
    /\ request # None /\ request.view = "localities" /\ request.stage = "received"
    /\ LocalitiesServe(get_dataset(_df, file, loads))
    /\ UNCHANGED <<file, client, threadVars>>

\* utils.py:433-461  build_llm_summary up to its return or its external call:
\* response carries the basic summary; with a client and rows the request
\* waits in the call, otherwise the view answers with response.
build_llm_summary(view, response) ==
    IF CallsExternal(client, response.subset)
    THEN /\ request' = [view |-> view, stage |-> "calling", response |-> response]
         /\ last' = last
    ELSE Respond(response)

\* the basic summary, as the text build_llm_summary starts from and falls back to
WithBasic(response, basic) ==
    [response EXCEPT !.basic = basic, !.summary = basic]

\* views.py:129-214  the report of the subset r.result
ReportAnswer(cache, r, areas, cities, year_range, metric) ==
    /\ _df' = [cache EXCEPT !.frame = r.canonical]
    /\ build_llm_summary("report",
          WithBasic([kind |-> "report", areas |-> areas, cities |-> cities,
                     year_range |-> year_range, metric |-> metric,
                     subset |-> r.result,
                     insights |-> build_insights(r.result, year_range, metric),
                     basic |-> <<>>, called |-> "no", summary |-> <<>>],
                    build_basic_summary(r.result, areas, cities, year_range, metric)))

\* views.py:124-214  g is what get_dataset() gave filter_data
ReportServe(g, areas, cities, year_range, metric) ==
    /\ loads' = loads + g.read
    /\ IF g.ok
       THEN ReportAnswer(g.cache, filter_data(g.cache.frame, areas, year_range, cities),
                         areas, cities, year_range, metric)
       ELSE Raised("report", g)

\* views.py:106-214  GET report_pdf/ up to the call of the external service
download_report_view ==
    /\ request # None /\ request.view = "report" /\ request.stage = "received"
    /\ ReportServe(get_dataset(_df, file, loads),
                   ParseList(request.areas), ParseList(request.cities),
                   ParseYearRange(request.start_year, request.end_year),
                   request.metric)
    /\ UNCHANGED <<file, client, threadVars>>

\* views.py:49  the localities offered when nothing matched
SuggestionLimit == 10

\* views.py:47-49  the summary of the empty branch of query_view
NoDataFoundSummary(df, areas, cities) ==
    LET localities == Unique(Series(df, Col_final_location))
        n == IF Len(localities) < SuggestionLimit THEN Len(localities) ELSE SuggestionLimit
    IN  <<[sentence |-> "no data found for",
           subject |-> IF Len(areas) > 0 THEN areas ELSE cities],
          [sentence |-> "try one of these instead",
           localities |-> SubSeq(localities, 1, n)]>>

\* views.py:57  "insights": {}
EmptyDict == <<>>

\* views.py:46-57  the bundle answered for an empty subset
EmptyBundle(df, subset, areas, cities, year_range, metric) ==
    [kind |-> "query", areas |-> areas, cities |-> cities,
     year_range |-> year_range, metric |-> metric,
     subset |-> subset,
     chart |-> [labels |-> <<>>, datasets |-> <<>>],
     table |-> <<>>,
     insights |-> EmptyDict,
     basic |-> <<>>, called |-> "skipped",
     summary |-> NoDataFoundSummary(df, areas, cities)]

\* views.py:46-75  the bundle of the subset r.result
QueryAnswer(cache, r, areas, cities, year_range, metric) ==
    /\ _df' = [cache EXCEPT !.frame = r.canonical]
    /\ IF Len(r.result.rows) = 0
       THEN Respond(EmptyBundle(r.canonical, r.result, areas, cities, year_range, metric))
       ELSE build_llm_summary("query",
               WithBasic([kind |-> "query", areas |-> areas, cities |-> cities,
                          year_range |-> year_range, metric |-> metric,
                          subset |-> r.result,
                          chart |-> build_chart_data(r.result, metric),
                          table |-> build_table_data(r.result, TableLimit),
                          insights |-> build_insights(r.result, year_range, metric),
                          basic |-> <<>>, called |-> "no", summary |-> <<>>],
                         build_basic_summary(r.result, areas, cities, year_range, metric)))

\* views.py:36-75  found is what extract_areas_from_message returned
QueryFilter(cache, found, cities, year_range, metric) ==
    \E areas \in (IF found.phase = "exact" THEN {found.exact} ELSE Orderings(found.fuzzy)) :
        QueryAnswer(cache, filter_data(cache.frame, areas, year_range, cities),
                    areas, cities, year_range, metric)

\* views.py:36-75  g is what get_dataset() gave extract_areas_from_message
QueryServe(g, message, metric) ==
    /\ loads' = loads + g.read
    /\ IF g.ok
       THEN QueryFilter(g.cache,
                        extract_areas_from_message(g.cache.frame, message),
                        extract_cities_from_message(g.cache.frame, message),
                        extract_year_range(message), metric)
       ELSE Raised("query", g)

\* views.py:23-75  POST query/ up to the call of the external service
query_view ==
    /\ request # None /\ request.view = "query" /\ request.stage = "received"
    /\ IF request.method # "POST"
       THEN /\ Respond(ErrorResponse("query", "POST only"))
            /\ UNCHANGED <<_df, loads>>
       ELSE IF ~request.json
       THEN /\ Respond(ErrorResponse("query", "Invalid JSON"))
            /\ UNCHANGED <<_df, loads>>
       ELSE QueryServe(get_dataset(_df, file, loads), request.message,
                       IF request.metric # "" THEN request.metric
                       ELSE detect_metric(request.message, "price"))
    /\ UNCHANGED <<file, client, threadVars>>

\* utils.py:462-464 and the rest of the view: client.responses.create ends
\* with outcome, build_llm_summary returns and the view responds.
ExternalCallEnds(outcome) ==
    /\ request # None /\ request.stage = "calling"
    /\ LET r == RewriteResult(request.response.basic, outcome)
       IN  last' = IF r.ok
                   THEN [request.response EXCEPT !.summary = r.text, !.called = outcome]
                   ELSE ErrorResponse(request.view, r.error)
    /\ request' = None
    /\ UNCHANGED <<file, _df, loads, client, threadVars>>

\* ------------------------------------------------------------------ request inputs
AreaParams ==
    { <<>>,
      <<"w","a","k","a","d">>,
      <<" ","B","a","n","e","r"," ",",","a","n">>,
      <<".">> }
CityParams == { <<>>, <<"P","U","N","E">>, <<"M","u","m","b","a","i"," ">> }
YearParams ==
    { << <<>>, <<>> >>,
      << <<"2","0","2","0">>, <<"2","0","2","1">> >>,
      << <<"2","0","2","1">>, <<"x">> >>,
      << <<"2","0","2","3">>, <<"2","0","2","3">> >> }

CsvRequests ==
    {[view |-> "csv", stage |-> "received", areas |-> a, cities |-> c,
      start_year |-> y[1], end_year |-> y[2]] :
        a \in AreaParams, c \in CityParams, y \in YearParams}

ReportAreaParams == { <<>>, <<"w","a","k","a","d">>, <<"A","n","d","h","e","r","i">> }
ReportCityParams == { <<>>, <<"P","U","N","E">> }
ReportYearParams ==
    { << <<>>, <<>> >>,
      << <<"2","0","2","0">>, <<"2","0","2","1">> >>,
      << <<"2","0","2","3">>, <<"2","0","2","3">> >> }
ReportRequests ==
    {[view |-> "report", stage |-> "received", areas |-> a, cities |-> c,
      start_year |-> y[1], end_year |-> y[2], metric |-> m] :
        a \in ReportAreaParams, c \in ReportCityParams, y \in ReportYearParams,
        m \in {"price", "both"}}

Messages ==
    { <<"W","a","k","a","d"," ","p","r","i","c","e"," ","2","0","2","0">>,
      <<"b","a","n","e","r"," ","w","a","k","a","d"," ","p","u","n","e"," ","2","0","2","1">>,
      <<"w","a","k","d"," ","b","a","n","r"," ","s","a","l","e","s">>,
      <<"d","e","m","a","n","d"," ","i","n"," ","1","9","9","9">>,
      <<>>,
      <<"r","a","t","e"," ","a","n","d"," ","s","a","l","e","s">>,
      <<"W","a","k","a","d","i","y","a"," ","2","0","2","1">>,
      <<"a","n","d","h","e","r","i"," ","m","u","m","b","a","i"," ","b","o","t","h">>,
      <<"p","u","n","e"," ","2","0","2","0">>,
      <<"W","a","k","a","d","i","y","a"," ","b","a","n","e","r"," ","2","0","2","1">>,
      <<"b","a","n","e","r"," ","w","a","k","d">> }

\* metric is the body's "metric", "" when the body has none
QueryRequests ==
    {[view |-> "query", stage |-> "received", method |-> "POST", json |-> TRUE,
      message |-> msg, metric |-> m] : msg \in Messages, m \in {"", "both"}}
    \cup {[view |-> "query", stage |-> "received", method |-> "GET", json |-> TRUE],
          [view |-> "query", stage |-> "received", method |-> "POST", json |-> FALSE]}

Requests ==
    CsvRequests \cup ReportRequests \cup QueryRequests
        \cup {[view |-> "localities", stage |-> "received"]}

InitCache ==
    /\ file \in Files
    /\ _df = None
    /\ loads = 0
    /\ pc = [t \in Threads |-> "idle"]
    /\ got = [t \in Threads |-> NoResult]
    /\ client = None
    /\ request = None
    /\ last = NoResult

NextCache == \E t \in Threads : GetDatasetCheck(t) \/ GetDatasetLoad(t)

\* Requests served by a multi-threaded server, each calling get_dataset().
SpecCache == InitCache /\ [][NextCache]_vars

OpenAIClient == [kind |-> "OpenAI"]

Init ==
    /\ file \in Files
    /\ _df = None
    /\ loads = 0
    /\ pc = [t \in Threads |-> "idle"]
    /\ got = [t \in Threads |-> NoResult]
    /\ client \in {None, OpenAIClient}
    /\ request = None
    /\ last = NoResult

Next ==
    \/ \E r \in Requests : Receive(r)
    \/ download_csv_view
    \/ download_report_view
    \/ query_view
    \/ \E outcome \in ExternalOutcomes : ExternalCallEnds(outcome)
    \/ list_localities

\* Requests served one at a time, each view run from its first line to its response.
Spec == Init /\ [][Next]_vars

\* A request has arrived and its view has not run yet.
Received == request # None /\ request.stage = "received"

\* The step that takes a received request out of that stage: its view runs
\* to its response, or up to the call of the external service.  Under Next
\* only the four views take it.
ViewReturns == Received /\ (request' = None \/ request'.stage = "calling")

\* The server runs the view of every request it has received; nothing
\* obliges the external service to answer (utils.py:458-461 passes no timeout).
FairSpec == Spec /\ WF_request(ViewReturns)

\* A required column is absent from workbook f after column-name normalisation.
RequiredColumnAbsent(f) ==
    \E v \in SchemaValues : \A i \in 1..Len(f.header) : NormalizeColumn(f.header[i]) # v

\* C1: requests racing on an empty cache run the underlying load at most once
\* in total, and every caller that gets a dataset gets the same object.
C1_SingleFlightLoad ==
    /\ (file.exists /\ ~RequiredColumnAbsent(file)) => loads <= 1
    /\ \A s, t \in Threads :
          (got[s].kind = "dataset" /\ got[t].kind = "dataset") => got[s].id = got[t].id

\* C2: once the cache holds a dataset it is never replaced or reset, and the
\* backing file is not read again.
C2_LoadedOnceNeverReplaced ==
    [][(_df # None) => (_df' = _df /\ loads' = loads)]_vars

\* C3: a missing file or an absent required column makes get_dataset() fail
\* with an error and leaves the cache unpopulated; whatever is cached or
\* returned is the whole workbook with every required column.
C3_NoPartialDataset ==
    /\ (~file.exists \/ RequiredColumnAbsent(file)) =>
          (_df = None /\ \A t \in Threads : got[t].kind # "dataset")
    /\ (_df # None) =>
          /\ \A v \in SchemaValues : \E i \in 1..Len(_df.frame.columns) : _df.frame.columns[i] = v
          /\ _df.frame.rows = file.rows
    /\ \A t \in Threads :
          /\ (got[t].kind = "dataset") => (_df # None)
          /\ (got[t].kind = "error") =>
                IF file.exists THEN RequiredColumnAbsent(file) /\ got[t].error = "ValueError"
                ELSE got[t].error = "FileNotFoundError"

\* A call failed on a workbook lacking a required column, the cache still empty.
C3_Witness ==
    \E t \in Threads :
        /\ got[t].kind = "error" /\ got[t].error = "ValueError"
        /\ loads > 0 /\ _df = None

\* ------------------------------------------------------------------ filtering claims
\* The responses that report the subset filter_data returned for their filters.
Filtered == last.kind \in {"csv", "report", "query"}

\* a occurs in s as a plain substring
SubstringOf(a, s) ==
    \E off \in 0..(Len(s) - Len(a)) : \A i \in 1..Len(a) : s[off + i] = a[i]

\* The three predicates of the Filter Engine on one dataset row.
RowSatisfies(row, areas, cities, year_range) ==
    /\ \/ Len(cities) = 0
       \/ \E k \in 1..Len(cities) : Norm(row[3]) = Norm(cities[k])
    /\ \/ Len(areas) = 0
       \/ \E k \in 1..Len(areas) : SubstringOf(Norm(areas[k]), Norm(row[1]))
    /\ \/ Len(year_range) = 0
       \/ (year_range[1] <= row[2] /\ row[2] <= year_range[2])

\* C4: the cached dataset keeps exactly the rows, row order and columns it
\* had after the load, whatever has been filtered since.
C4_DatasetNeverMutated ==
    (_df # None) =>
        /\ _df.frame.columns = <<SCHEMA.area, SCHEMA.year, SCHEMA.city, SCHEMA.price, SCHEMA.demand>>
        /\ _df.frame.rows = file.rows
        /\ _df.frame.index = [i \in 1..Len(file.rows) |-> i - 1]

\* A request filtered by city, area and years has been answered with part of the rows.
C4_Witness ==
    /\ Filtered /\ _df # None
    /\ Len(last.areas) > 0 /\ Len(last.cities) > 0 /\ Len(last.year_range) > 0
    /\ Len(last.subset.rows) > 0 /\ Len(last.subset.rows) < Len(_df.frame.rows)

\* C5: a row is in the result exactly when the city, area (substring) and
\* year predicates that are active all hold for it.
C5_ResultIsConjunctionOfPredicates ==
    (Filtered /\ _df # None) =>
        \A i \in 1..Len(_df.frame.rows) :
            (\E k \in 1..Len(last.subset.index) : last.subset.index[k] = _df.frame.index[i])
            <=> RowSatisfies(_df.frame.rows[i], last.areas, last.cities, last.year_range)

\* C6: with no filter the result is the dataset itself (rows, order, columns);
\* with any filter the result keeps the dataset's columns and its rows in
\* dataset order.
C6_OrderAndColumnsPreserved ==
    (Filtered /\ _df # None) =>
        /\ last.subset.columns = _df.frame.columns
        /\ \A k \in 1..Len(last.subset.index) :
              /\ last.subset.rows[k] = _df.frame.rows[last.subset.index[k] + 1]
              /\ k > 1 => last.subset.index[k - 1] < last.subset.index[k]
        /\ (Len(last.areas) = 0 /\ Len(last.cities) = 0 /\ Len(last.year_range) = 0) =>
              /\ last.subset.rows = _df.frame.rows
              /\ last.subset.index = _df.frame.index

\* An unfiltered request has been answered with all seven rows.
C6_Witness ==
    /\ Filtered /\ _df # None
    /\ Len(last.areas) = 0 /\ Len(last.cities) = 0 /\ Len(last.year_range) = 0
    /\ Len(last.subset.rows) = 7

\* ------------------------------------------------------------------ result claims
\* The responses built from a filtered subset by the query or the report path.
Bundled == last.kind \in {"query", "report"}

\* C7: an empty filtered subset gives a structured empty result: the summary
\* is the Summary Builder's fixed "no data" message, the chart has no labels
\* and no datasets, the table is empty, and insights has empty areas and
\* empty ranked_areas, in the builders and in the bundle of the query path.
C7_EmptySubsetStructuredResult ==
    (Bundled /\ Len(last.subset.rows) = 0) =>
        /\ last.summary = NoDataMessage
        /\ build_chart_data(last.subset, last.metric) = [labels |-> <<>>, datasets |-> <<>>]
        /\ build_table_data(last.subset, TableLimit) = <<>>
        /\ last.kind = "query" =>
              (last.chart = [labels |-> <<>>, datasets |-> <<>>] /\ last.table = <<>>)
        /\ "areas" \in DOMAIN last.insights /\ "ranked_areas" \in DOMAIN last.insights
        /\ last.insights.areas = <<>> /\ last.insights.ranked_areas = <<>>

C10_ScoresWithinRange ==
    (Bundled /\ "areas" \in DOMAIN last.insights) =>
        \A i \in 1..Len(last.insights.areas) :
            LET sc == last.insights.areas[i].scores
            IN  /\ 0 <= sc.growth_score /\ sc.growth_score <= 10 * Scale
                /\ 0 <= sc.demand_score /\ sc.demand_score <= 10 * Scale
                /\ 0 <= sc.risk_score /\ sc.risk_score <= 10 * Scale
                /\ 0 <= sc.investment_score /\ sc.investment_score <= 10 * Scale

\* A batch was scored whose greatest average demand and volatility are zero.
C10_Witness ==
    /\ Bundled /\ "areas" \in DOMAIN last.insights
    /\ Len(last.insights.areas) > 0
    /\ \A i \in 1..Len(last.insights.areas) :
          /\ last.insights.areas[i].stats.avg_demand = 0
          /\ last.insights.areas[i].stats.price_volatility = 0

\* ------------------------------------------------------------------ ranking claims
\* The position of locality a in the per-locality statistics of insights.
StatsPosition(insights, a) ==
    CHOOSE i \in 1..Len(insights.areas) : insights.areas[i].area = a

\* C11: ranked_areas holds exactly one entry per locality of the per-locality
\* statistics, each with that locality's rounded investment score, in
\* descending order of score, localities of equal score in the order of the
\* statistics (the order in which the group-by yields the localities).
C11_RankingStableDescending ==
    (Bundled /\ "ranked_areas" \in DOMAIN last.insights) =>
        LET ranked == last.insights.ranked_areas
            stats == last.insights.areas
        IN  /\ Len(ranked) = Len(stats)
            /\ \A i \in 1..Len(stats) :
                  \E k \in 1..Len(ranked) :
                      /\ ranked[k].area = stats[i].area
                      /\ ranked[k].investment_score
                            = RoundTenth(stats[i].scores.investment_score)
            /\ \A k, l \in 1..Len(ranked) :
                  k < l =>
                      /\ ranked[k].area # ranked[l].area
                      /\ ranked[k].investment_score >= ranked[l].investment_score
                      /\ ranked[k].investment_score = ranked[l].investment_score =>
                            StatsPosition(last.insights, ranked[k].area)
                                < StatsPosition(last.insights, ranked[l].area)

\* Three localities were ranked, two of them with the same score.
C11_Witness ==
    /\ Bundled /\ "ranked_areas" \in DOMAIN last.insights
    /\ Len(last.insights.ranked_areas) = 3
    /\ last.insights.ranked_areas[1].investment_score
          > last.insights.ranked_areas[2].investment_score
    /\ last.insights.ranked_areas[2].investment_score
          = last.insights.ranked_areas[3].investment_score
    /\ last.insights.ranked_areas[2].area = Aundh
    /\ last.insights.ranked_areas[3].area = Wakad

\* ------------------------------------------------------------------ extraction claims
\* A step in which query_view serves a well-formed POST.
QueryServed ==
    /\ request # None /\ request.view = "query" /\ request.stage = "received"
    /\ request.method = "POST" /\ request.json
    /\ request' # request

\* The bundle that step builds: the answer, or what waits for the external call.
BundleBuilt == IF request' = None THEN last' ELSE request'.response

PriceWords == {Kw_price, Kw_rate, Kw_cost, Kw_value}
DemandWords == {Kw_demand, Kw_sales, Kw_interest, Kw_popularity}

\* The metric the keyword rule assigns to a text.
MetricByKeywords(message, default) ==
    LET msg == StrLower(message)
        price == \E w \in PriceWords : StrIn(w, msg)
        demand == \E w \in DemandWords : StrIn(w, msg)
    IN  IF StrIn(Kw_both, msg) \/ (price /\ demand) THEN "both"
        ELSE IF demand THEN "demand"
        ELSE IF price THEN "price"
        ELSE default

\* C12: detect_metric gives "both" for a text that holds "both" or that holds
\* a price keyword (price, rate, cost, value) and a demand keyword (demand,
\* sales, interest, popularity), in any case and order; otherwise demand,
\* then price, then the default.
C12_MetricByKeywords ==
    [][(QueryServed /\ request.metric = "" /\ BundleBuilt.kind = "query")
          => BundleBuilt.metric = MetricByKeywords(request.message, "price")]_vars

\* name occurs in msg as a whole word: no letter, digit or underscore adjoins it
WholeWordIn(name, msg) ==
    \E off \in 0..(Len(msg) - Len(name)) :
        /\ MatchesAt(msg, name, off)
        /\ off = 0 \/ ~IsWordChar(msg[off])
        /\ off + Len(name) = Len(msg) \/ ~IsWordChar(msg[off + Len(name) + 1])

\* C13: when a locality name occurs in the lowercased text as a whole word,
\* the localities returned are exactly those that so occur: none that occurs
\* only inside a longer word, and none from the fuzzy phase; when no name so
\* occurs, they are the localities within ratio 0.8 of one of the text's
\* n-grams of one to three words.
C13_ExactPhaseWholeWords ==
    [][(QueryServed /\ BundleBuilt.kind = "query") =>
          LET msg == StrStrip(StrLower(request.message))
              localities == SeqElems(Series(_df'.frame, SCHEMA.area))
              whole == {a \in localities : WholeWordIn(StrStrip(StrLower(a)), msg)}
              close == {a \in localities :
                          \E cand \in Candidates(msg) : IsClose(StrLower(cand), StrLower(a))}
              returned == SeqElems(BundleBuilt.areas)
          IN  /\ Len(BundleBuilt.areas) = Cardinality(returned)
              /\ IF whole # {} THEN returned = whole ELSE returned = close]_vars

\* "Wakadiya baner 2021" was answered with Baner alone.
C13_Witness ==
    /\ last.kind = "query"
    /\ last.areas = <<Baner>>
    /\ last.year_range = <<2021, 2021>>
    /\ Len(last.cities) = 0

====
